---- MODULE Spec2Model ----
(***************************************************************************)
(* The playback orchestration hook of the music player                     *)
(* (src/src/hooks/useAudioPlayer.ts) as a state machine.                   *)
(*                                                                         *)
(* The hook's React state is the model's state.  Every handler is one      *)
(* action up to its first `await`; each `await invoke(...)` is a task in   *)
(* `pending`, and the continuation after the await is the action that      *)
(* completes the task with the Audio Engine's answer (success or error).   *)
(* The engine processes a command at the moment it answers it.  A          *)
(* continuation works on the values its closure captured when the handler  *)
(* started (the poll callback: the effect's dependencies), while           *)
(* functional updates (setX(prev => ...)) read the state at completion.    *)
(*                                                                         *)
(* Time is counted in tenths of a second: the poll period (100 ms) and the *)
(* end-of-track tolerance (0.1 s) are both one unit.  A Song is            *)
(* identified with its path (a number); its metadata is a function of it.  *)
(* playedAt timestamps and the artwork image are not modelled; the awaited  *)
(* get_album_artwork call of the poll's auto-advance is (a task in         *)
(* `pending`), for the tracks whose metadata.has_artwork is true.          *)
(***************************************************************************)
EXTENDS Integers, Sequences, FiniteSets, TLC

VARIABLES
    playlist,        \* useState<Song[]>            (sequence of paths)
    currentSong,     \* useState<Song | null>       (a path, or NoSong)
    isPlaying,       \* useState(false)
    volume,          \* useState(50)
    currentTime,     \* useState(0)                 (tenths of a second)
    duration,        \* useState(0)                 (tenths of a second)
    playHistory,     \* useState<PlayHistoryEntry[]>
    playbackMode,    \* useState<PlaybackMode>
    shuffleHistory,  \* useState<number[]>
    engine,          \* the Audio Engine behind invoke(): [song, pos, playing, volume]
    pending,         \* the invoke() calls awaiting the engine's answer, oldest first
    lastOp,          \* observation: the handler or continuation that ran last
    run,             \* observation: indices played by the current run of Shuffle next steps
    cycle,           \* observation: indices played since the last reset of the shuffle bag
    undo,            \* observation: the tracks left by the Shuffle next steps not yet undone
    autoFired,       \* observation: play commands the poller issued since a play command last completed
    budget           \* environment: the plays a behaviour may record (fixed by Init)

hookVars == <<playlist, currentSong, isPlaying, volume, currentTime, duration,
              playHistory, playbackMode, shuffleHistory>>
obsVars == <<lastOp, run, cycle, undo, autoFired, budget>>
vars == <<playlist, currentSong, isPlaying, volume, currentTime, duration,
          playHistory, playbackMode, shuffleHistory, engine, pending,
          lastOp, run, cycle, undo, autoFired, budget>>

(***************************************************************************)
(* Bounds of the model.                                                    *)
(***************************************************************************)
\* The catalogue holds the paths 1..NumPaths; playlists have up to NumPaths tracks.
NumPaths == 3
\* Plays recorded in the history (the sum of the playCounts) per behaviour,
\* where the engine may reject commands.
MaxPlays == 3
\* The same where the engine accepts every command (Shuffle sessions).
MaxShufflePlays == 6
\* invoke() calls awaiting an answer at the same time in the overlapping specifications.
MaxPending == 2
\* seek(t) is called with t in -1..MaxSeek (tenths of a second).
MaxSeek == 4
\* Entries of the playlist where reorderPlaylist may add undefined entries.
MaxPlaylist == 4

(***************************************************************************)
(* Program constants.                                                      *)
(***************************************************************************)
\* `backendTime >= duration - 0.1`: the tolerance, in tenths of a second.
Eps == 1
\* `[newEntry, ...prev].slice(0, 100)`
HistoryCap == 100
\* useState(50)
InitialVolume == 50
\* `seconds: number = 10` of skipBackward and skipForward, in tenths of a second.
DefaultSkip == 100

NoSong == 0
Paths == 1..NumPaths

Linear == "linear"
RepeatAll == "repeat-all"
RepeatOne == "repeat-one"
Shuffle == "shuffle"
\* togglePlaybackMode's `modes` array, in order.
Modes == <<Linear, RepeatAll, RepeatOne, Shuffle>>

(***************************************************************************)
(* The tracks: what the engine reports as a file's duration and what the   *)
(* track's metadata declares (0: no metadata.duration).                    *)
(***************************************************************************)
EngDur(p) == 2
MetaDur(p) == IF p = 2 THEN 0 ELSE IF p = 3 THEN 3 ELSE 2

\* `nextSong.metadata?.has_artwork`
HasArtwork(p) == p = 2

\* `song.metadata?.duration || songDuration`
DurationOf(p, songDuration) == IF MetaDur(p) # 0 THEN MetaDur(p) ELSE songDuration

(***************************************************************************)
(* Array helpers, with the code's 0-based indices.                         *)
(***************************************************************************)
Range(s) == {s[i] : i \in 1..Len(s)}
Min2(a, b) == IF a < b THEN a ELSE b
Max2(a, b) == IF a > b THEN a ELSE b

\* playlist.findIndex(s => s.path === path): the first match, or -1.
FindIndex(pl, path) ==
    IF \E i \in 1..Len(pl) : pl[i] = path
      THEN (CHOOSE i \in 1..Len(pl) : pl[i] = path /\ \A j \in 1..(i-1) : pl[j] # path) - 1
      ELSE -1

\* findIndex's callback reads `s.path`: it throws a TypeError on an undefined
\* entry (NoSong) that it meets before a match.
FindThrows(pl, path) ==
    \E i \in 1..Len(pl) : pl[i] = NoSong /\ \A j \in 1..(i - 1) : pl[j] # path

\* playlist[i]: undefined (NoSong) outside the array.
At(pl, i) == IF i >= 0 /\ i < Len(pl) THEN pl[i + 1] ELSE NoSong

\* prev.slice(0, -1)
DropLast(s) == IF Len(s) = 0 THEN s ELSE SubSeq(s, 1, Len(s) - 1)

\* getRandomIndex(exclude): the indices Math.random() can select.
GetRandomIndexMut(pl, exclude) == 0..(Len(pl) - 1)
GetRandomIndex(pl, exclude) ==
    LET availableIndices == {i \in 0..(Len(pl) - 1) : i \notin Range(exclude)}
    IN  IF availableIndices = {} THEN {0} ELSE availableIndices

\* The poll callback's inline choice in Shuffle: availableIndices[floor(random * length)];
\* with no available index the element is undefined (-1 stands for it).
PollRandomIndexMut(pl, exclude) == 0..(Len(pl) - 1)
PollRandomIndex(pl, exclude) ==
    LET availableIndices == {i \in 0..(Len(pl) - 1) : i \notin Range(exclude)}
    IN  IF availableIndices = {} THEN {-1} ELSE availableIndices

(***************************************************************************)
(* History Recorder: addToHistory and its inline copies in the poll.       *)
(***************************************************************************)
Entry(path, n) == [path |-> path, playCount |-> n]

\* `.slice(0, 100)`
TruncateMut(all) == all
Truncate(all) == SubSeq(all, 1, Min2(Len(all), HistoryCap))

AddToHistoryMut(prev, path) == <<Entry(path, 1)>> \o prev
AddToHistory(prev, path) ==
    IF \E i \in 1..Len(prev) : prev[i].path = path
      THEN [i \in 1..Len(prev) |->
               IF prev[i].path = path
                 THEN Entry(path, prev[i].playCount + 1)
                 ELSE prev[i]]
      ELSE Truncate(<<Entry(path, 1)>> \o prev)

RECURSIVE TotalPlays(_)
TotalPlays(h) == IF h = <<>> THEN 0 ELSE h[1].playCount + TotalPlays(Tail(h))

(***************************************************************************)
(* Tasks: an invoke() awaiting its answer, with what its continuation      *)
(* captured.                                                               *)
(***************************************************************************)
Task(k, song, arg) ==
    [k |-> k, song |-> song, arg |-> arg,
     dur |-> 0, mode |-> Linear, pl |-> <<>>, sh |-> <<>>]

\* The poll callback awaiting get_current_time, with the effect's dependencies.
PollTask ==
    [k |-> "poll", song |-> currentSong, arg |-> 0,
     dur |-> duration, mode |-> playbackMode, pl |-> playlist, sh |-> shuffleHistory]

RemoveAt(s, i) == SubSeq(s, 1, i - 1) \o SubSeq(s, i + 1, Len(s))
ReplaceAt(s, i, t) == [s EXCEPT ![i] = t]

PlayKinds == {"play_song", "poll_play", "poll_repeat"}
PendingPlays == Cardinality({i \in 1..Len(pending) : pending[i].k \in PlayKinds})
\* A further play command may be issued (bound of the model).
CanPlay == TotalPlays(playHistory) + PendingPlays < budget

(***************************************************************************)
(* The Audio Engine (the native backend behind invoke).                    *)
(***************************************************************************)
EngineIdle == [song |-> NoSong, pos |-> 0, playing |-> FALSE, volume |-> InitialVolume]

\* play_song(path) accepted: the track starts from 0.
EnginePlay(e, path) == [e EXCEPT !.song = path, !.pos = 0, !.playing = TRUE]
\* seek(position) accepted: the engine moves within the track.
EngineSeek(e, position) ==
    [e EXCEPT !.pos = Max2(0, Min2(position, IF e.song = NoSong THEN 0 ELSE EngDur(e.song)))]

(***************************************************************************)
(* Observation variables (they record what happened; no handler reads      *)
(* them).                                                                  *)
(***************************************************************************)
\* One more play command issued by the poller; the count stops at two.
CountFired(n) == IF n > 1 THEN n ELSE n + 1

\* A step that is no Shuffle next/previous step ends the observed runs.
ObsBreak(op) ==
    /\ lastOp' = op
    /\ run' = <<>> /\ cycle' = <<>> /\ undo' = <<>>
    /\ UNCHANGED <<autoFired, budget>>

ObsKeep(op) ==
    /\ lastOp' = op
    /\ UNCHANGED <<run, cycle, undo, autoFired, budget>>

\* A Shuffle next step (manual or automatic) from index c to index n of a
\* playlist of len >= 2 tracks; reset: the step reset the shuffle bag.
\* A run, and the first cycle, begin with a next step taken with an empty
\* shuffle history; a later cycle begins with the step that resets the bag.
ObsShuffleNext(op, c, n, len, reset) ==
    /\ lastOp' = op
    /\ run' = IF run = <<>>
                THEN (IF shuffleHistory = <<>> THEN <<c, n>> ELSE <<>>)
              ELSE IF Len(run) >= len THEN run
              ELSE Append(run, n)
    /\ cycle' = IF reset THEN <<c, n>>
                ELSE IF cycle = <<>>
                  THEN (IF shuffleHistory = <<>> THEN <<c, n>> ELSE <<>>)
                ELSE IF Len(cycle) > len THEN cycle
                ELSE Append(cycle, n)
    /\ undo' = IF reset THEN <<c>> ELSE Append(undo, c)
    /\ budget' = budget

(***************************************************************************)
(* playSong(song), up to `await invoke("play_song")`.                      *)
(* playSong(undefined) sets currentSong and then throws on song.path       *)
(* inside the try: the catch sets isPlaying false.                         *)
(***************************************************************************)
PlaySong(song) ==
    /\ currentSong' = song
    /\ IF song = NoSong
         THEN /\ isPlaying' = FALSE
              /\ pending' = pending
         ELSE /\ CanPlay
              /\ isPlaying' = isPlaying
              /\ pending' = Append(pending, Task("play_song", song, volume))
    /\ UNCHANGED <<playlist, volume, currentTime, duration, playHistory,
                   playbackMode, engine>>

\* playSong called by the UI (a click on a track).
UserPlaySong(song) ==
    /\ PlaySong(song)
    /\ UNCHANGED shuffleHistory
    /\ ObsBreak("playSong")

\* playSong's catch: `setIsPlaying(false)`
OnPlayErrorMut(playing) == playing
OnPlayError(playing) == FALSE

\* The continuation of playSong after play_song answered.
PlaySongDone(i, ok) ==
    /\ i \in 1..Len(pending)
    /\ pending[i].k = "play_song"
    /\ LET t == pending[i] IN
       IF ok
         THEN /\ engine' = EnginePlay(engine, t.song)
              /\ duration' = DurationOf(t.song, EngDur(t.song))
              /\ currentTime' = 0
              /\ isPlaying' = TRUE
              /\ pending' = ReplaceAt(pending, i, Task("play_volume", t.song, t.arg))
              /\ autoFired' = 0
              /\ lastOp' = "playStarted"
         ELSE /\ isPlaying' = OnPlayError(isPlaying)
              /\ pending' = RemoveAt(pending, i)
              /\ UNCHANGED <<engine, duration, currentTime, autoFired>>
              /\ lastOp' = "playFailed"
    /\ UNCHANGED <<playlist, currentSong, volume, playHistory, playbackMode,
                   shuffleHistory, run, cycle, undo, budget>>

\* The continuation of playSong after set_volume answered: artwork, addToHistory.
PlayVolumeDone(i, ok) ==
    /\ i \in 1..Len(pending)
    /\ pending[i].k = "play_volume"
    /\ LET t == pending[i] IN
       IF ok
         THEN /\ engine' = [engine EXCEPT !.volume = t.arg]
              /\ playHistory' = AddToHistory(playHistory, t.song)
              /\ isPlaying' = isPlaying
              /\ lastOp' = "playRecorded"
         ELSE /\ isPlaying' = OnPlayError(isPlaying)
              /\ UNCHANGED <<engine, playHistory>>
              /\ lastOp' = "playVolumeFailed"
    /\ pending' = RemoveAt(pending, i)
    /\ UNCHANGED <<playlist, currentSong, volume, currentTime, duration,
                   playbackMode, shuffleHistory, run, cycle, undo, autoFired, budget>>

(***************************************************************************)
(* The modes' policies, as nextSong, previousSong and the poll write them. *)
(***************************************************************************)
\* RepeatOne: `playSong(currentSong)`, `play_song { path: currentSong.path }`.
RepeatOneSongMut(song) == At(playlist, (FindIndex(playlist, song) + 1) % Len(playlist))
RepeatOneSong(song) == song

\* Linear: `currentIndex < playlist.length - 1`
HasNext(currentIndex, len) == currentIndex < len - 1

\* RepeatAll: `(currentIndex + 1) % playlist.length`
WrapNext(currentIndex, len) == (currentIndex + 1) % len

\* RepeatAll: `currentIndex === 0 ? playlist.length - 1 : currentIndex - 1`
WrapPreviousMut(currentIndex, len) == currentIndex - 1
WrapPrevious(currentIndex, len) == IF currentIndex = 0 THEN len - 1 ELSE currentIndex - 1

\* Linear: `currentIndex > 0`
HasPreviousMut(currentIndex) == currentIndex >= 0
HasPrevious(currentIndex) == currentIndex > 0

\* Shuffle: `shuffleHistory.length >= playlist.length - 1`, the bag is used up.
BagUsedUp(sh, len) == Len(sh) >= len - 1

\* Shuffle: `setShuffleHistory([currentIndex])`
ResetBagMut(currentIndex) == <<>>
ResetBag(currentIndex) == <<currentIndex>>

(***************************************************************************)
(* nextSong                                                                *)
(***************************************************************************)
\* findIndex threw: the handler ends there, nothing is set.
NavigationThrew(op) ==
    /\ UNCHANGED <<hookVars, engine, pending>>
    /\ ObsBreak(op)

NextSong ==
    /\ currentSong # NoSong
    /\ Len(playlist) # 0
    /\ LET currentIndex == FindIndex(playlist, currentSong)
           len == Len(playlist)
       IN
       CASE FindThrows(playlist, currentSong) -> NavigationThrew("nextSongThrew")
         [] playbackMode = RepeatOne ->
              /\ PlaySong(RepeatOneSong(currentSong))
              /\ UNCHANGED shuffleHistory
              /\ ObsBreak("nextSong")
         [] playbackMode = Shuffle ->
              IF len = 1
                THEN /\ PlaySong(currentSong)
                     /\ UNCHANGED shuffleHistory
                     /\ ObsBreak("nextSong")
                ELSE IF BagUsedUp(shuffleHistory, len)
                  THEN \E nextIndex \in GetRandomIndex(playlist, <<currentIndex>>) :
                         /\ shuffleHistory' = ResetBag(currentIndex)
                         /\ PlaySong(At(playlist, nextIndex))
                         /\ ObsShuffleNext("nextSong", currentIndex, nextIndex, len, TRUE)
                         /\ UNCHANGED autoFired
                  ELSE \E nextIndex \in GetRandomIndex(playlist,
                                            Append(shuffleHistory, currentIndex)) :
                         /\ shuffleHistory' = Append(shuffleHistory, currentIndex)
                         /\ PlaySong(At(playlist, nextIndex))
                         /\ ObsShuffleNext("nextSong", currentIndex, nextIndex, len, FALSE)
                         /\ UNCHANGED autoFired
         [] playbackMode = RepeatAll ->
              /\ PlaySong(At(playlist, WrapNext(currentIndex, len)))
              /\ UNCHANGED shuffleHistory
              /\ ObsBreak("nextSong")
         [] OTHER ->
              /\ IF HasNext(currentIndex, len)
                   THEN PlaySong(At(playlist, currentIndex + 1))
                   ELSE UNCHANGED <<hookVars, engine, pending>>
              /\ UNCHANGED shuffleHistory
              /\ ObsBreak("nextSong")

(***************************************************************************)
(* previousSong                                                            *)
(***************************************************************************)
\* The Shuffle branch's target when the history stack is not empty.
LastIndexMut(sh) == sh[1]
LastIndex(sh) == sh[Len(sh)]

PreviousSong ==
    /\ currentSong # NoSong
    /\ Len(playlist) # 0
    /\ LET currentIndex == FindIndex(playlist, currentSong)
           len == Len(playlist)
       IN
       CASE FindThrows(playlist, currentSong) -> NavigationThrew("previousSongThrew")
         [] playbackMode = RepeatOne ->
              /\ PlaySong(RepeatOneSong(currentSong))
              /\ UNCHANGED shuffleHistory
              /\ ObsBreak("previousSong")
         [] playbackMode = Shuffle ->
              IF len = 1
                THEN /\ PlaySong(currentSong)
                     /\ UNCHANGED shuffleHistory
                     /\ ObsBreak("previousSong")
                ELSE IF Len(shuffleHistory) > 0
                  THEN /\ shuffleHistory' = DropLast(shuffleHistory)
                       /\ PlaySong(At(playlist, LastIndex(shuffleHistory)))
                       /\ lastOp' = "previousSong"
                       /\ run' = <<>> /\ cycle' = <<>>
                       /\ undo' = DropLast(undo)
                       /\ UNCHANGED <<autoFired, budget>>
                  ELSE \E randomIndex \in GetRandomIndex(playlist, <<currentIndex>>) :
                         /\ PlaySong(At(playlist, randomIndex))
                         /\ UNCHANGED shuffleHistory
                         /\ ObsBreak("previousSong")
         [] playbackMode = RepeatAll ->
              /\ PlaySong(At(playlist, WrapPrevious(currentIndex, len)))
              /\ UNCHANGED shuffleHistory
              /\ ObsBreak("previousSong")
         [] OTHER ->
              /\ IF HasPrevious(currentIndex)
                   THEN PlaySong(At(playlist, currentIndex - 1))
                   ELSE UNCHANGED <<hookVars, engine, pending>>
              /\ UNCHANGED shuffleHistory
              /\ ObsBreak("previousSong")

(***************************************************************************)
(* The position poll: setInterval(..., 100) while isPlaying && currentSong *)
(***************************************************************************)
\* A tick of the interval: the callback starts and awaits get_current_time.
PollTick ==
    /\ isPlaying
    /\ currentSong # NoSong
    /\ pending' = Append(pending, PollTask)
    /\ UNCHANGED <<hookVars, engine>>
    /\ ObsKeep("pollTick")

\* `duration > 0 && backendTime >= duration - 0.1`
SongEndedMut(dur, backendTime) == dur > 0 /\ backendTime >= dur
SongEnded(dur, backendTime) == dur > 0 /\ backendTime >= dur - Eps

\* The poll callback sets nextSong current and awaits play_song for it;
\* an undefined nextSong throws inside the try (isPlaying false) and no
\* play command is issued.
PollAdvanceTo(i, nextSong) ==
    /\ currentSong' = nextSong
    /\ IF nextSong = NoSong
         THEN /\ isPlaying' = FALSE
              /\ pending' = RemoveAt(pending, i)
              /\ autoFired' = autoFired
         ELSE /\ CanPlay
              /\ isPlaying' = isPlaying
              /\ pending' = ReplaceAt(pending, i, Task("poll_play", nextSong, 0))
              /\ autoFired' = CountFired(autoFired)

\* The Shuffle and RepeatAll case of the poll callback's switch.
PollNextIndex(t, i) ==
    LET currentIndex == FindIndex(t.pl, t.song)
        len == Len(t.pl)
    IN
    IF t.mode = Shuffle
      THEN IF len = 1
             THEN /\ PollAdvanceTo(i, At(t.pl, currentIndex))
                  /\ UNCHANGED shuffleHistory
                  /\ lastOp' = "autoAdvance"
                  /\ run' = <<>> /\ cycle' = <<>> /\ undo' = <<>>
                  /\ budget' = budget
           ELSE IF BagUsedUp(t.sh, len)
             THEN \E nextIndex \in PollRandomIndex(t.pl, <<currentIndex>>) :
                    /\ shuffleHistory' = ResetBag(currentIndex)
                    /\ PollAdvanceTo(i, At(t.pl, nextIndex))
                    /\ ObsShuffleNext("autoAdvance", currentIndex, nextIndex, len, TRUE)
             ELSE \E nextIndex \in PollRandomIndex(t.pl, Append(t.sh, currentIndex)) :
                    /\ shuffleHistory' = Append(shuffleHistory, currentIndex)
                    /\ PollAdvanceTo(i, At(t.pl, nextIndex))
                    /\ ObsShuffleNext("autoAdvance", currentIndex, nextIndex, len, FALSE)
      ELSE /\ PollAdvanceTo(i, IF len = 0 THEN NoSong
                               ELSE At(t.pl, WrapNext(currentIndex, len)))
           /\ UNCHANGED shuffleHistory
           /\ lastOp' = "autoAdvance"
           /\ run' = <<>> /\ cycle' = <<>> /\ undo' = <<>>
           /\ budget' = budget

\* The callback's continuation after get_current_time answered.
PollTimeDone(i, ok) ==
    /\ i \in 1..Len(pending)
    /\ pending[i].k = "poll"
    /\ LET t == pending[i]
           backendTime == engine.pos
       IN
       IF ~ok
         THEN /\ pending' = RemoveAt(pending, i)
              /\ UNCHANGED <<hookVars, engine>>
              /\ ObsKeep("pollFailed")
         ELSE
           /\ currentTime' = backendTime
           /\ UNCHANGED <<playlist, volume, duration, playHistory, playbackMode, engine>>
           /\ IF ~SongEnded(t.dur, backendTime)
                THEN /\ pending' = RemoveAt(pending, i)
                     /\ UNCHANGED <<currentSong, isPlaying, shuffleHistory>>
                     /\ ObsKeep("pollUpdate")
                ELSE
                  CASE t.mode = RepeatOne ->
                         /\ CanPlay
                         /\ pending' = ReplaceAt(pending, i,
                                            Task("poll_repeat", RepeatOneSong(t.song), 0))
                         /\ autoFired' = CountFired(autoFired)
                         /\ UNCHANGED <<currentSong, isPlaying, shuffleHistory>>
                         /\ lastOp' = "autoAdvance"
                         /\ run' = <<>> /\ cycle' = <<>> /\ undo' = <<>>
                         /\ budget' = budget
                    [] FindThrows(t.pl, t.song) ->
                         \* findIndex threw: the callback's catch only warns.
                         /\ pending' = RemoveAt(pending, i)
                         /\ UNCHANGED <<currentSong, isPlaying, shuffleHistory>>
                         /\ ObsKeep("pollThrew")
                    [] t.mode \in {RepeatAll, Shuffle} ->
                         PollNextIndex(t, i)
                    [] OTHER ->
                         LET currentIndex == FindIndex(t.pl, t.song) IN
                         IF HasNext(currentIndex, Len(t.pl))
                           THEN /\ PollAdvanceTo(i, At(t.pl, currentIndex + 1))
                                /\ UNCHANGED shuffleHistory
                                /\ lastOp' = "autoAdvance"
                                /\ run' = <<>> /\ cycle' = <<>> /\ undo' = <<>>
                                /\ budget' = budget
                           ELSE /\ isPlaying' = FALSE
                                /\ pending' = RemoveAt(pending, i)
                                /\ UNCHANGED <<currentSong, shuffleHistory>>
                                /\ ObsBreak("autoStop")

\* RepeatOne: the continuation after play_song answered (no history update).
PollRepeatDone(i, ok) ==
    /\ i \in 1..Len(pending)
    /\ pending[i].k = "poll_repeat"
    /\ LET t == pending[i] IN
       IF ok
         THEN /\ engine' = EnginePlay(engine, t.song)
              /\ duration' = DurationOf(t.song, EngDur(t.song))
              /\ currentTime' = 0
              /\ isPlaying' = TRUE
              /\ autoFired' = 0
              /\ lastOp' = "repeatStarted"
         ELSE /\ isPlaying' = FALSE
              /\ UNCHANGED <<engine, duration, currentTime, autoFired>>
              /\ lastOp' = "repeatFailed"
    /\ pending' = RemoveAt(pending, i)
    /\ UNCHANGED <<playlist, currentSong, volume, playHistory, playbackMode,
                   shuffleHistory, run, cycle, undo, budget>>

\* Linear, RepeatAll, Shuffle: the continuation after play_song answered.
\* For a track with artwork it awaits get_album_artwork before the inline
\* history update; for the others the history update follows at once.
PollPlayDone(i, ok) ==
    /\ i \in 1..Len(pending)
    /\ pending[i].k = "poll_play"
    /\ LET t == pending[i] IN
       IF ok
         THEN /\ engine' = EnginePlay(engine, t.song)
              /\ duration' = DurationOf(t.song, EngDur(t.song))
              /\ currentTime' = 0
              /\ isPlaying' = TRUE
              /\ autoFired' = 0
              /\ IF HasArtwork(t.song)
                   THEN /\ pending' = ReplaceAt(pending, i, Task("poll_artwork", t.song, 0))
                        /\ playHistory' = playHistory
                        /\ lastOp' = "autoStarted"
                   ELSE /\ pending' = RemoveAt(pending, i)
                        /\ playHistory' = AddToHistory(playHistory, t.song)
                        /\ lastOp' = "autoRecorded"
         ELSE /\ isPlaying' = FALSE
              /\ pending' = RemoveAt(pending, i)
              /\ UNCHANGED <<engine, duration, currentTime, playHistory, autoFired>>
              /\ lastOp' = "autoFailed"
    /\ UNCHANGED <<playlist, currentSong, volume, playbackMode,
                   shuffleHistory, run, cycle, undo, budget>>

\* The continuation after get_album_artwork answered: the inline history
\* update, whether the artwork was delivered or the call failed (the inner
\* try/catch only clears the artwork).
PollArtworkDone(i, ok) ==
    /\ i \in 1..Len(pending)
    /\ pending[i].k = "poll_artwork"
    /\ playHistory' = AddToHistory(playHistory, pending[i].song)
    /\ pending' = RemoveAt(pending, i)
    /\ lastOp' = (IF ok THEN "autoArtRecorded" ELSE "autoArtFailed")
    /\ UNCHANGED <<playlist, currentSong, isPlaying, volume, currentTime, duration,
                   playbackMode, shuffleHistory, engine,
                   run, cycle, undo, autoFired, budget>>

\* The engine plays on: one tenth of a second passes in the playing track.
EngineAdvance ==
    /\ engine.playing
    /\ engine.song # NoSong
    /\ engine.pos < EngDur(engine.song)
    /\ engine' = [engine EXCEPT !.pos = engine.pos + 1]
    /\ UNCHANGED <<hookVars, pending>>
    /\ ObsKeep("engineAdvance")

(***************************************************************************)
(* togglePlay, seek, skipBackward, skipForward, handleVolumeChange         *)
(***************************************************************************)
\* `if (isPlaying) await invoke("pause") else await invoke("resume")`
ToggleCommandMut(playing) == "resume"
ToggleCommand(playing) == IF playing THEN "pause" ELSE "resume"

TogglePlay ==
    /\ IF currentSong = NoSong
         THEN pending' = pending
         ELSE pending' = Append(pending,
                  Task(ToggleCommand(isPlaying), currentSong,
                       IF isPlaying THEN 1 ELSE 0))
    /\ UNCHANGED <<hookVars, engine>>
    /\ ObsKeep("togglePlay")

\* setIsPlaying(!isPlaying) with the isPlaying the callback captured.
TogglePlayDone(i, ok) ==
    /\ i \in 1..Len(pending)
    /\ pending[i].k \in {"pause", "resume"}
    /\ LET t == pending[i] IN
       IF ok
         THEN /\ engine' = [engine EXCEPT !.playing = (t.k = "resume" /\ engine.song # NoSong)]
              /\ isPlaying' = (t.arg = 0)
         ELSE UNCHANGED <<engine, isPlaying>>
    /\ pending' = RemoveAt(pending, i)
    /\ UNCHANGED <<playlist, currentSong, volume, currentTime, duration,
                   playHistory, playbackMode, shuffleHistory>>
    /\ ObsKeep(IF ok THEN "toggleDone" ELSE "toggleFailed")

\* seek(position) up to `await invoke("seek", { position })`.
SeekTarget(position) == position

Seek(position) ==
    /\ currentSong # NoSong
    /\ currentTime' = SeekTarget(position)
    /\ pending' = Append(pending, Task("seek", currentSong, SeekTarget(position)))
    /\ UNCHANGED <<playlist, currentSong, isPlaying, volume, duration,
                   playHistory, playbackMode, shuffleHistory, engine>>
    /\ ObsKeep("seek")

\* After the seek command answered: on success the 100 ms timer and then
\* get_current_time, on error get_current_time at once.
SeekDone(i, ok) ==
    /\ i \in 1..Len(pending)
    /\ pending[i].k = "seek"
    /\ engine' = IF ok THEN EngineSeek(engine, pending[i].arg) ELSE engine
    /\ pending' = ReplaceAt(pending, i, Task("seek_sync", pending[i].song, 0))
    /\ UNCHANGED hookVars
    /\ ObsKeep(IF ok THEN "seekSent" ELSE "seekFailed")

\* `setCurrentTime(backendTime)` of the re-read.
SyncedTimeMut(cur, backendTime) == cur
SyncedTime(cur, backendTime) == backendTime

\* The authoritative re-read: setCurrentTime(backendTime), or a warning.
SeekSyncDone(i, ok) ==
    /\ i \in 1..Len(pending)
    /\ pending[i].k = "seek_sync"
    /\ currentTime' = IF ok THEN SyncedTime(currentTime, engine.pos) ELSE currentTime
    /\ pending' = RemoveAt(pending, i)
    /\ UNCHANGED <<playlist, currentSong, isPlaying, volume, duration,
                   playHistory, playbackMode, shuffleHistory, engine>>
    /\ ObsKeep("seekSynced")

\* setCurrentTime, the state setter the hook returns: no engine call.
SetCurrentTime(time) ==
    /\ currentTime' = time
    /\ UNCHANGED <<playlist, currentSong, isPlaying, volume, duration,
                   playHistory, playbackMode, shuffleHistory, engine, pending>>
    /\ ObsKeep("setCurrentTime")

SkipBackward(seconds) ==
    /\ currentSong # NoSong
    /\ LET newTime == Max2(0, currentTime - seconds) IN
       /\ currentTime' = SeekTarget(newTime)
       /\ pending' = Append(pending, Task("seek", currentSong, SeekTarget(newTime)))
    /\ UNCHANGED <<playlist, currentSong, isPlaying, volume, duration,
                   playHistory, playbackMode, shuffleHistory, engine>>
    /\ ObsKeep("skipBackward")

SkipForward(seconds) ==
    /\ currentSong # NoSong
    /\ LET newTime == Min2(duration, currentTime + seconds) IN
       /\ currentTime' = SeekTarget(newTime)
       /\ pending' = Append(pending, Task("seek", currentSong, SeekTarget(newTime)))
    /\ UNCHANGED <<playlist, currentSong, isPlaying, volume, duration,
                   playHistory, playbackMode, shuffleHistory, engine>>
    /\ ObsKeep("skipForward")

HandleVolumeChange(newVolume) ==
    /\ volume' = newVolume
    /\ pending' = Append(pending, Task("set_volume", NoSong, newVolume))
    /\ UNCHANGED <<playlist, currentSong, isPlaying, currentTime, duration,
                   playHistory, playbackMode, shuffleHistory, engine>>
    /\ ObsKeep("handleVolumeChange")

VolumeDone(i, ok) ==
    /\ i \in 1..Len(pending)
    /\ pending[i].k = "set_volume"
    /\ engine' = IF ok THEN [engine EXCEPT !.volume = pending[i].arg] ELSE engine
    /\ pending' = RemoveAt(pending, i)
    /\ UNCHANGED hookVars
    /\ ObsKeep(IF ok THEN "volumeDone" ELSE "volumeFailed")

(***************************************************************************)
(* clearPlaylist, clearHistory, addSongsToPlaylist, reorderPlaylist,       *)
(* togglePlaybackMode                                                      *)
(***************************************************************************)
ClearPlaylist ==
    /\ playlist' = <<>>
    /\ currentSong' = NoSong
    /\ isPlaying' = FALSE
    /\ UNCHANGED <<volume, currentTime, duration, playHistory, playbackMode,
                   shuffleHistory, engine, pending>>
    /\ ObsBreak("clearPlaylist")

ClearHistory ==
    /\ playHistory' = <<>>
    /\ UNCHANGED <<playlist, currentSong, isPlaying, volume, currentTime, duration,
                   playbackMode, shuffleHistory, engine, pending>>
    /\ ObsKeep("clearHistory")

AddSongsToPlaylist(songs) ==
    /\ playlist' = playlist \o songs
    /\ UNCHANGED <<currentSong, isPlaying, volume, currentTime, duration,
                   playHistory, playbackMode, shuffleHistory, engine, pending>>
    /\ ObsBreak("addSongsToPlaylist")

\* Array.prototype.splice's start: a negative index counts from the end, an
\* index beyond the array is the array's length.
SpliceStart(index, len) == IF index < 0 THEN Max2(len + index, 0) ELSE Min2(index, len)

\* splice(fromIndex, 1) then splice(toIndex, 0, draggedItem), for any indices:
\* with fromIndex outside the array nothing is removed and the inserted
\* draggedItem is undefined (NoSong).
ReorderMut(pl, fromIndex, toIndex) ==
    LET from == SpliceStart(fromIndex, Len(pl))
        to == SpliceStart(toIndex, Len(pl))
    IN  IF from < Len(pl) /\ to < Len(pl)
          THEN [pl EXCEPT ![from + 1] = pl[to + 1], ![to + 1] = pl[from + 1]]
          ELSE pl
Reorder(pl, fromIndex, toIndex) ==
    LET from == SpliceStart(fromIndex, Len(pl))
        draggedItem == IF from < Len(pl) THEN pl[from + 1] ELSE NoSong
        rest == IF from < Len(pl) THEN RemoveAt(pl, from + 1) ELSE pl
        to == SpliceStart(toIndex, Len(rest))
    IN  SubSeq(rest, 1, to) \o <<draggedItem>> \o SubSeq(rest, to + 1, Len(rest))

ReorderPlaylist(fromIndex, toIndex) ==
    /\ playlist' = Reorder(playlist, fromIndex, toIndex)
    /\ UNCHANGED <<currentSong, isPlaying, volume, currentTime, duration,
                   playHistory, playbackMode, shuffleHistory, engine, pending>>
    /\ ObsBreak("reorderPlaylist")

\* modes[(modes.indexOf(playbackMode) + 1) % modes.length]
NextModeMut(mode) ==
    LET currentIndex == (CHOOSE i \in 1..Len(Modes) : Modes[i] = mode) - 1
    IN  Modes[((currentIndex + 2) % Len(Modes)) + 1]
NextMode(mode) ==
    LET currentIndex == (CHOOSE i \in 1..Len(Modes) : Modes[i] = mode) - 1
    IN  Modes[((currentIndex + 1) % Len(Modes)) + 1]

TogglePlaybackMode ==
    /\ playbackMode' = NextMode(playbackMode)
    /\ shuffleHistory' = IF NextMode(playbackMode) # Shuffle THEN <<>> ELSE shuffleHistory
    /\ UNCHANGED <<playlist, currentSong, isPlaying, volume, currentTime, duration,
                   playHistory, engine, pending>>
    /\ ObsBreak("togglePlaybackMode")

(***************************************************************************)
(* Specifications                                                          *)
(***************************************************************************)
\* The playlists a session starts with: 1..n in order.
Ident(n) == [i \in 1..n |-> i]

InitHook ==
    /\ currentSong = NoSong
    /\ isPlaying = FALSE
    /\ volume = InitialVolume
    /\ currentTime = 0
    /\ duration = 0
    /\ playHistory = <<>>
    /\ shuffleHistory = <<>>
    /\ engine = EngineIdle
    /\ pending = <<>>
    /\ lastOp = "init"
    /\ run = <<>> /\ cycle = <<>> /\ undo = <<>>
    /\ autoFired = 0

\* No handler runs while an engine call is awaiting its answer.
Idle == pending = <<>>
\* Handlers overlap: up to MaxPending calls await their answers.
Room == Len(pending) < MaxPending

\* Spec: navigation, one operation at a time.  The session starts with a
\* stored playlist and playback mode (restored from localStorage on mount).
Init ==
    /\ InitHook
    /\ playlist \in {Ident(n) : n \in 1..NumPaths}
    /\ playbackMode \in {Linear, RepeatAll, RepeatOne}
    /\ budget = MaxPlays

Next ==
    \/ (Idle /\ \E s \in Range(playlist) : UserPlaySong(s))
    \/ (Idle /\ NextSong)
    \/ (Idle /\ PreviousSong)
    \/ (Idle /\ PollTick)
    \/ \E i \in 1..Len(pending), ok \in BOOLEAN : PlaySongDone(i, ok)
    \/ \E i \in 1..Len(pending), ok \in BOOLEAN : PlayVolumeDone(i, ok)
    \/ \E i \in 1..Len(pending), ok \in BOOLEAN : PollTimeDone(i, ok)
    \/ \E i \in 1..Len(pending), ok \in BOOLEAN : PollRepeatDone(i, ok)
    \/ \E i \in 1..Len(pending), ok \in BOOLEAN : PollPlayDone(i, ok)
    \/ \E i \in 1..Len(pending), ok \in BOOLEAN : PollArtworkDone(i, ok)
    \/ EngineAdvance

Spec == Init /\ [][Next]_vars

\* SpecShuffle: a Shuffle session.  The user starts a track and then moves
\* with next, previous and the end-of-track auto-advance, one operation at a
\* time; the engine accepts the play commands.
InitShuffle ==
    /\ InitHook
    /\ playlist \in {Ident(n) : n \in 1..NumPaths}
    /\ playbackMode = Shuffle
    /\ budget = MaxShufflePlays

NextShuffle ==
    \/ (Idle /\ currentSong = NoSong /\ \E s \in Range(playlist) : UserPlaySong(s))
    \/ (Idle /\ NextSong)
    \/ (Idle /\ PreviousSong)
    \/ (Idle /\ PollTick)
    \/ \E i \in 1..Len(pending) : PlaySongDone(i, TRUE)
    \/ \E i \in 1..Len(pending) : PlayVolumeDone(i, TRUE)
    \/ \E i \in 1..Len(pending) : PollTimeDone(i, TRUE)
    \/ \E i \in 1..Len(pending) : PollPlayDone(i, TRUE)
    \/ \E i \in 1..Len(pending) : PollArtworkDone(i, TRUE)
    \/ EngineAdvance

SpecShuffle == InitShuffle /\ [][NextShuffle]_vars

\* SpecSeek: one track is started and the position is moved with seek,
\* skipBackward and skipForward while the poll runs, one operation at a time.
\* The engine accepts the play command; seek and get_current_time may fail.
InitSeek ==
    /\ InitHook
    /\ playlist \in {Ident(n) : n \in 1..NumPaths}
    /\ playbackMode = Linear
    /\ budget = 1

SkipSeconds == {1, DefaultSkip}

NextSeek ==
    \/ (Idle /\ \E s \in Range(playlist) : UserPlaySong(s))
    \/ (Idle /\ \E t \in (-1)..MaxSeek : Seek(t))
    \/ (Idle /\ \E t \in (-1)..MaxSeek : SetCurrentTime(t))
    \/ (Idle /\ \E sec \in SkipSeconds : SkipBackward(sec))
    \/ (Idle /\ \E sec \in SkipSeconds : SkipForward(sec))
    \/ (Idle /\ PollTick)
    \/ \E i \in 1..Len(pending) : PlaySongDone(i, TRUE)
    \/ \E i \in 1..Len(pending) : PlayVolumeDone(i, TRUE)
    \/ \E i \in 1..Len(pending), ok \in BOOLEAN : PollTimeDone(i, ok)
    \/ \E i \in 1..Len(pending), ok \in BOOLEAN : SeekDone(i, ok)
    \/ \E i \in 1..Len(pending), ok \in BOOLEAN : SeekSyncDone(i, ok)
    \/ EngineAdvance

SpecSeek == InitSeek /\ [][NextSeek]_vars

\* SpecPoll: a track is started and plays to its end under the poll; the
\* interval keeps ticking while earlier callbacks still await the engine.
InitPoll ==
    /\ InitHook
    /\ playlist \in {Ident(n) : n \in 1..NumPaths}
    /\ playbackMode \in Range(Modes)
    /\ budget = MaxPlays

NextPoll ==
    \/ (Idle /\ currentSong = NoSong /\ \E s \in Range(playlist) : UserPlaySong(s))
    \/ (Room /\ PollTick)
    \/ \E i \in 1..Len(pending) : PlaySongDone(i, TRUE)
    \/ \E i \in 1..Len(pending) : PlayVolumeDone(i, TRUE)
    \/ \E i \in 1..Len(pending) : PollTimeDone(i, TRUE)
    \/ \E i \in 1..Len(pending) : PollRepeatDone(i, TRUE)
    \/ \E i \in 1..Len(pending) : PollPlayDone(i, TRUE)
    \/ \E i \in 1..Len(pending) : PollArtworkDone(i, TRUE)
    \/ EngineAdvance

SpecPoll == InitPoll /\ [][NextPoll]_vars

\* SpecHistory: a session that starts with a stored history (restored from
\* localStorage on mount) of tracks that are not in the playlist, at or just
\* below the cap, and plays the playlist's tracks in Linear mode.
StoredHistory(n) == [i \in 1..n |-> Entry(NumPaths + i, 1)]

InitHistory ==
    /\ currentSong = NoSong
    /\ isPlaying = FALSE
    /\ volume = InitialVolume
    /\ currentTime = 0
    /\ duration = 0
    /\ playHistory \in {StoredHistory(n) : n \in (HistoryCap - NumPaths)..HistoryCap}
    /\ shuffleHistory = <<>>
    /\ engine = EngineIdle
    /\ pending = <<>>
    /\ lastOp = "init"
    /\ run = <<>> /\ cycle = <<>> /\ undo = <<>>
    /\ autoFired = 0
    /\ playlist = Ident(NumPaths)
    /\ playbackMode = Linear
    /\ budget = Len(playHistory) + MaxPlays

NextHistory ==
    \/ (Idle /\ \E s \in Range(playlist) : UserPlaySong(s))
    \/ (Idle /\ PollTick)
    \/ \E i \in 1..Len(pending) : PlaySongDone(i, TRUE)
    \/ \E i \in 1..Len(pending) : PlayVolumeDone(i, TRUE)
    \/ \E i \in 1..Len(pending) : PollTimeDone(i, TRUE)
    \/ \E i \in 1..Len(pending) : PollPlayDone(i, TRUE)
    \/ \E i \in 1..Len(pending) : PollArtworkDone(i, TRUE)
    \/ EngineAdvance

SpecHistory == InitHistory /\ [][NextHistory]_vars

\* SpecToggle: tracks are started and playback is paused and resumed with
\* togglePlay under the poll, one operation at a time; any engine command
\* may fail.
InitToggle ==
    /\ InitHook
    /\ playlist \in {Ident(n) : n \in 1..NumPaths}
    /\ playbackMode = Linear
    /\ budget = MaxPlays - 1

NextToggle ==
    \/ (Idle /\ \E s \in Range(playlist) : UserPlaySong(s))
    \/ (Idle /\ TogglePlay)
    \/ (Idle /\ PollTick)
    \/ \E i \in 1..Len(pending), ok \in BOOLEAN : PlaySongDone(i, ok)
    \/ \E i \in 1..Len(pending), ok \in BOOLEAN : PlayVolumeDone(i, ok)
    \/ \E i \in 1..Len(pending), ok \in BOOLEAN : PollTimeDone(i, ok)
    \/ \E i \in 1..Len(pending), ok \in BOOLEAN : PollPlayDone(i, ok)
    \/ \E i \in 1..Len(pending), ok \in BOOLEAN : PollArtworkDone(i, ok)
    \/ \E i \in 1..Len(pending), ok \in BOOLEAN : TogglePlayDone(i, ok)
    \/ EngineAdvance

SpecToggle == InitToggle /\ [][NextToggle]_vars

\* SpecSeeks: one track plays and seeks overlap: a seek is called while
\* earlier seeks and polls still await the engine, and the answers arrive in
\* any order.  The seek command may fail; get_current_time answers.
InitSeeks ==
    /\ InitHook
    /\ playlist = Ident(1)
    /\ playbackMode = Linear
    /\ budget = 1

NextSeeks ==
    \/ (Idle /\ currentSong = NoSong /\ \E s \in Range(playlist) : UserPlaySong(s))
    \/ (Room /\ \E t \in 0..MaxSeek : Seek(t))
    \/ (Room /\ \E t \in 0..MaxSeek : SetCurrentTime(t))
    \/ (Room /\ PollTick)
    \/ \E i \in 1..Len(pending) : PlaySongDone(i, TRUE)
    \/ \E i \in 1..Len(pending) : PlayVolumeDone(i, TRUE)
    \/ \E i \in 1..Len(pending) : PollTimeDone(i, TRUE)
    \/ \E i \in 1..Len(pending), ok \in BOOLEAN : SeekDone(i, ok)
    \/ \E i \in 1..Len(pending) : SeekSyncDone(i, TRUE)
    \/ EngineAdvance

SpecSeeks == InitSeeks /\ [][NextSeeks]_vars

\* SpecVolume: the volume is changed while a track is started and plays;
\* volume changes overlap and the engine may reject set_volume.  The engine's
\* volume is kept in percent (the fraction sent, times 100).
VolumeInputs == {-1, 0, InitialVolume, 100, 101}

InitVolume ==
    /\ InitHook
    /\ playlist \in {Ident(n) : n \in 1..NumPaths}
    /\ playbackMode = Linear
    /\ budget = 1

NextVolume ==
    \/ (Idle /\ \E s \in Range(playlist) : UserPlaySong(s))
    \/ (Room /\ \E v \in VolumeInputs : HandleVolumeChange(v))
    \/ \E i \in 1..Len(pending) : PlaySongDone(i, TRUE)
    \/ \E i \in 1..Len(pending), ok \in BOOLEAN : PlayVolumeDone(i, ok)
    \/ \E i \in 1..Len(pending), ok \in BOOLEAN : VolumeDone(i, ok)
    \/ EngineAdvance

SpecVolume == InitVolume /\ [][NextVolume]_vars

\* SpecFailures: a track is started, paused, resumed and sought and the
\* volume is set, one operation at a time; every engine command may fail.
InitFailures ==
    /\ InitHook
    /\ playlist \in {Ident(n) : n \in 1..NumPaths}
    /\ playbackMode = Linear
    /\ budget = 1

NextFailures ==
    \/ (Idle /\ \E s \in Range(playlist) : UserPlaySong(s))
    \/ (Idle /\ TogglePlay)
    \/ (Idle /\ \E t \in 0..1 : Seek(t))
    \/ (Idle /\ \E v \in {0, InitialVolume} : HandleVolumeChange(v))
    \/ (Idle /\ PollTick)
    \/ \E i \in 1..Len(pending), ok \in BOOLEAN : PlaySongDone(i, ok)
    \/ \E i \in 1..Len(pending), ok \in BOOLEAN : PlayVolumeDone(i, ok)
    \/ \E i \in 1..Len(pending), ok \in BOOLEAN : TogglePlayDone(i, ok)
    \/ \E i \in 1..Len(pending), ok \in BOOLEAN : SeekDone(i, ok)
    \/ \E i \in 1..Len(pending), ok \in BOOLEAN : SeekSyncDone(i, ok)
    \/ \E i \in 1..Len(pending), ok \in BOOLEAN : VolumeDone(i, ok)
    \/ \E i \in 1..Len(pending), ok \in BOOLEAN : PollTimeDone(i, ok)
    \/ \E i \in 1..Len(pending), ok \in BOOLEAN : PollPlayDone(i, ok)
    \/ \E i \in 1..Len(pending), ok \in BOOLEAN : PollArtworkDone(i, ok)
    \/ EngineAdvance

SpecFailures == InitFailures /\ [][NextFailures]_vars

\* SpecAuto: the user starts a track and then leaves the session alone; the
\* tracks end under the poll, whose interval keeps ticking while earlier
\* callbacks still await the engine, and the engine may reject the track an
\* auto-advance resolved.
InitAuto ==
    /\ InitHook
    /\ playlist \in {Ident(n) : n \in 1..NumPaths}
    /\ playbackMode \in {Linear, RepeatAll, Shuffle}
    /\ budget = MaxPlays

NextAuto ==
    \/ (Idle /\ currentSong = NoSong /\ \E s \in Range(playlist) : UserPlaySong(s))
    \/ (Room /\ PollTick)
    \/ \E i \in 1..Len(pending) : PlaySongDone(i, TRUE)
    \/ \E i \in 1..Len(pending) : PlayVolumeDone(i, TRUE)
    \/ \E i \in 1..Len(pending) : PollTimeDone(i, TRUE)
    \/ \E i \in 1..Len(pending), ok \in BOOLEAN : PollPlayDone(i, ok)
    \/ \E i \in 1..Len(pending), ok \in BOOLEAN : PollArtworkDone(i, ok)
    \/ EngineAdvance

SpecAuto == InitAuto /\ [][NextAuto]_vars

\* SpecEdit: the playlist is edited (cleared, extended by tracks it does not
\* hold yet, reordered with indices inside and outside the list) while tracks
\* are played in Linear mode, one operation at a time; the engine accepts the
\* commands.
\* reorderPlaylist is called with indices inside and outside the playlist.
ReorderIndices == (-1)..NumPaths

InitEdit ==
    /\ InitHook
    /\ playlist \in {Ident(n) : n \in 1..NumPaths}
    /\ playbackMode = Linear
    /\ budget = MaxPlays - 1

NextEdit ==
    \/ (Idle /\ \E s \in Range(playlist) \cap Paths : UserPlaySong(s))
    \/ (Idle /\ NextSong)
    \/ (Idle /\ PreviousSong)
    \/ (Idle /\ ClearPlaylist)
    \/ (Idle /\ \E s \in Paths \ Range(playlist) :
                  /\ Len(playlist) < MaxPlaylist
                  /\ AddSongsToPlaylist(<<s>>))
    \/ (Idle /\ \E f, t \in ReorderIndices :
                  /\ Len(Reorder(playlist, f, t)) <= MaxPlaylist
                  /\ ReorderPlaylist(f, t))
    \/ (Idle /\ PollTick)
    \/ \E i \in 1..Len(pending) : PlaySongDone(i, TRUE)
    \/ \E i \in 1..Len(pending) : PlayVolumeDone(i, TRUE)
    \/ \E i \in 1..Len(pending) : PollTimeDone(i, TRUE)
    \/ \E i \in 1..Len(pending) : PollPlayDone(i, TRUE)
    \/ \E i \in 1..Len(pending) : PollArtworkDone(i, TRUE)
    \/ EngineAdvance

SpecEdit == InitEdit /\ [][NextEdit]_vars

\* SpecReorder: as SpecEdit, with reorderPlaylist called with valid indices
\* only (a drag from one row of the list to another).
NextReorder ==
    \/ (Idle /\ \E s \in Range(playlist) : UserPlaySong(s))
    \/ (Idle /\ NextSong)
    \/ (Idle /\ PreviousSong)
    \/ (Idle /\ ClearPlaylist)
    \/ (Idle /\ \E s \in Paths \ Range(playlist) : AddSongsToPlaylist(<<s>>))
    \/ (Idle /\ \E f, t \in 0..(Len(playlist) - 1) : ReorderPlaylist(f, t))
    \/ (Idle /\ PollTick)
    \/ \E i \in 1..Len(pending) : PlaySongDone(i, TRUE)
    \/ \E i \in 1..Len(pending) : PlayVolumeDone(i, TRUE)
    \/ \E i \in 1..Len(pending) : PollTimeDone(i, TRUE)
    \/ \E i \in 1..Len(pending) : PollPlayDone(i, TRUE)
    \/ \E i \in 1..Len(pending) : PollArtworkDone(i, TRUE)
    \/ EngineAdvance

SpecReorder == InitEdit /\ [][NextReorder]_vars

\* SpecDup: the playlist may hold a path at several positions.  The user
\* starts the track at the first position and then only calls next(); the
\* engine accepts the commands.
DupPlaylists == UNION {[1..n -> Paths] : n \in 1..NumPaths}

InitDup ==
    /\ InitHook
    /\ playlist \in DupPlaylists
    /\ playbackMode \in {Linear, RepeatAll}
    /\ budget = Len(playlist)

NextDup ==
    \/ (Idle /\ currentSong = NoSong /\ UserPlaySong(playlist[1]))
    \/ (Idle /\ NextSong)
    \/ \E i \in 1..Len(pending) : PlaySongDone(i, TRUE)
    \/ \E i \in 1..Len(pending) : PlayVolumeDone(i, TRUE)
    \/ EngineAdvance

SpecDup == InitDup /\ [][NextDup]_vars

\* SpecModes: the playback mode is cycled while tracks are played and
\* followed by next() and the auto-advance, one operation at a time; the
\* engine accepts the commands.
InitModes ==
    /\ InitHook
    /\ playlist \in {Ident(n) : n \in 1..NumPaths}
    /\ playbackMode \in Range(Modes)
    /\ budget = MaxPlays - 1

NextModes ==
    \/ (Idle /\ \E s \in Range(playlist) : UserPlaySong(s))
    \/ (Idle /\ NextSong)
    \/ (Idle /\ TogglePlaybackMode)
    \/ (Idle /\ PollTick)
    \/ \E i \in 1..Len(pending) : PlaySongDone(i, TRUE)
    \/ \E i \in 1..Len(pending) : PlayVolumeDone(i, TRUE)
    \/ \E i \in 1..Len(pending) : PollTimeDone(i, TRUE)
    \/ \E i \in 1..Len(pending) : PollRepeatDone(i, TRUE)
    \/ \E i \in 1..Len(pending) : PollPlayDone(i, TRUE)
    \/ \E i \in 1..Len(pending) : PollArtworkDone(i, TRUE)
    \/ EngineAdvance

SpecModes == InitModes /\ [][NextModes]_vars

\* SpecStop: playback is stopped (pause, clearPlaylist, the end of a Linear
\* playlist) while poll callbacks still await the engine: the handlers
\* overlap and the answers arrive in any order; the engine accepts the
\* commands.
InitStop ==
    /\ InitHook
    /\ playlist \in {Ident(n) : n \in 1..NumPaths}
    /\ playbackMode \in {Linear, RepeatAll}
    /\ budget = MaxPlays - 1

NextStop ==
    \/ (Idle /\ currentSong = NoSong /\ \E s \in Range(playlist) : UserPlaySong(s))
    \/ (Room /\ TogglePlay)
    \/ (Room /\ ClearPlaylist)
    \/ (Room /\ PollTick)
    \/ \E i \in 1..Len(pending) : PlaySongDone(i, TRUE)
    \/ \E i \in 1..Len(pending) : PlayVolumeDone(i, TRUE)
    \/ \E i \in 1..Len(pending) : PollTimeDone(i, TRUE)
    \/ \E i \in 1..Len(pending) : PollPlayDone(i, TRUE)
    \/ \E i \in 1..Len(pending) : PollArtworkDone(i, TRUE)
    \/ \E i \in 1..Len(pending) : TogglePlayDone(i, TRUE)
    \/ EngineAdvance

SpecStop == InitStop /\ [][NextStop]_vars

\* SpecOverlap: the user starts a track while the play command of an
\* earlier call still awaits the engine; the engine accepts the commands and
\* the answers arrive in any order.
InitOverlap ==
    /\ InitHook
    /\ playlist = Ident(NumPaths)
    /\ playbackMode = Linear
    /\ budget = MaxPlays - 1

NextOverlap ==
    \/ (Room /\ \E s \in Range(playlist) : UserPlaySong(s))
    \/ \E i \in 1..Len(pending) : PlaySongDone(i, TRUE)
    \/ \E i \in 1..Len(pending) : PlayVolumeDone(i, TRUE)
    \/ EngineAdvance

SpecOverlap == InitOverlap /\ [][NextOverlap]_vars

\* SpecModeRace: the playback mode is cycled while poll callbacks still
\* await the engine; the engine accepts the commands and the answers arrive
\* in any order.
InitModeRace ==
    /\ InitHook
    /\ playlist \in {Ident(n) : n \in 1..NumPaths}
    /\ playbackMode \in Range(Modes)
    /\ budget = MaxPlays - 1

NextModeRace ==
    \/ (Idle /\ currentSong = NoSong /\ \E s \in Range(playlist) : UserPlaySong(s))
    \/ (Room /\ TogglePlaybackMode)
    \/ (Room /\ PollTick)
    \/ \E i \in 1..Len(pending) : PlaySongDone(i, TRUE)
    \/ \E i \in 1..Len(pending) : PlayVolumeDone(i, TRUE)
    \/ \E i \in 1..Len(pending) : PollTimeDone(i, TRUE)
    \/ \E i \in 1..Len(pending) : PollRepeatDone(i, TRUE)
    \/ \E i \in 1..Len(pending) : PollPlayDone(i, TRUE)
    \/ \E i \in 1..Len(pending) : PollArtworkDone(i, TRUE)
    \/ EngineAdvance

SpecModeRace == InitModeRace /\ [][NextModeRace]_vars

\* SpecLinear: the user starts a track of a Linear playlist and leaves the
\* session alone.  The engine accepts and answers every command, the playing
\* track advances to its end, and the interval keeps ticking (also while
\* earlier callbacks still await the engine).
MaxLinearPlays == 4

InitLinear ==
    /\ InitHook
    /\ playlist \in {Ident(n) : n \in 1..NumPaths}
    /\ playbackMode = Linear
    /\ budget = MaxLinearPlays

AutoStep ==
    \/ (Room /\ PollTick)
    \/ \E i \in 1..Len(pending) : PlaySongDone(i, TRUE)
    \/ \E i \in 1..Len(pending) : PlayVolumeDone(i, TRUE)
    \/ \E i \in 1..Len(pending) : PollTimeDone(i, TRUE)
    \/ \E i \in 1..Len(pending) : PollPlayDone(i, TRUE)
    \/ \E i \in 1..Len(pending) : PollArtworkDone(i, TRUE)
    \/ EngineAdvance

NextLinear ==
    \/ (Idle /\ currentSong = NoSong /\ \E s \in Range(playlist) : UserPlaySong(s))
    \/ AutoStep

\* setInterval fires, invoke() is answered and the engine plays on.
FairAuto ==
    /\ WF_vars(Room /\ PollTick)
    /\ WF_vars(\E i \in 1..Len(pending) : PlaySongDone(i, TRUE))
    /\ WF_vars(\E i \in 1..Len(pending) : PlayVolumeDone(i, TRUE))
    /\ WF_vars(\E i \in 1..Len(pending) : PollTimeDone(i, TRUE))
    /\ WF_vars(\E i \in 1..Len(pending) : PollPlayDone(i, TRUE))
    /\ WF_vars(\E i \in 1..Len(pending) : PollArtworkDone(i, TRUE))
    /\ WF_vars(EngineAdvance)

SpecLinear == InitLinear /\ [][NextLinear]_vars /\ FairAuto

\* SpecRepeatAll: as SpecLinear, in RepeatAll mode; the session is followed
\* for MaxRepeatPlays track starts.
MaxRepeatPlays == 5

InitRepeatAll ==
    /\ InitHook
    /\ playlist \in {Ident(n) : n \in 1..NumPaths}
    /\ playbackMode = RepeatAll
    /\ budget = MaxRepeatPlays

NextRepeatAll ==
    \/ (Idle /\ currentSong = NoSong /\ \E s \in Range(playlist) : UserPlaySong(s))
    \/ AutoStep

SpecRepeatAll == InitRepeatAll /\ [][NextRepeatAll]_vars /\ FairAuto

\* SpecForeign: the user starts any known track, also one that is not in
\* the playlist (from the history view), and moves with next() and
\* previous() in any mode, one operation at a time; the engine accepts the
\* commands.
InitForeign ==
    /\ InitHook
    /\ playlist \in {Ident(n) : n \in 1..NumPaths}
    /\ playbackMode \in Range(Modes)
    /\ budget = MaxPlays - 1

NextForeign ==
    \/ (Idle /\ \E s \in Paths : UserPlaySong(s))
    \/ (Idle /\ NextSong)
    \/ (Idle /\ PreviousSong)
    \/ \E i \in 1..Len(pending) : PlaySongDone(i, TRUE)
    \/ \E i \in 1..Len(pending) : PlayVolumeDone(i, TRUE)
    \/ EngineAdvance

SpecForeign == InitForeign /\ [][NextForeign]_vars

\* SpecSync: tracks are started and playback is toggled while earlier
\* commands still await the engine; the answers arrive in any order and the
\* engine may reject set_volume.
InitSync ==
    /\ InitHook
    /\ playlist \in {Ident(n) : n \in 1..NumPaths}
    /\ playbackMode = Linear
    /\ budget = MaxPlays - 1

NextSync ==
    \/ (Room /\ \E s \in Range(playlist) : UserPlaySong(s))
    \/ (Room /\ TogglePlay)
    \/ \E i \in 1..Len(pending) : PlaySongDone(i, TRUE)
    \/ \E i \in 1..Len(pending), ok \in BOOLEAN : PlayVolumeDone(i, ok)
    \/ \E i \in 1..Len(pending) : TogglePlayDone(i, TRUE)
    \/ EngineAdvance

SpecSync == InitSync /\ [][NextSync]_vars

\* SpecToggles: a track is started and togglePlay is called again before the
\* command of an earlier togglePlay call has been answered; the engine
\* accepts the commands.
ToggleKinds == {"pause", "resume"}
OnlyToggles == \A i \in 1..Len(pending) : pending[i].k \in ToggleKinds

InitToggles ==
    /\ InitHook
    /\ playlist \in {Ident(n) : n \in 1..NumPaths}
    /\ playbackMode = Linear
    /\ budget = MaxPlays - 1

NextToggles ==
    \/ (Idle /\ \E s \in Range(playlist) : UserPlaySong(s))
    \/ (Room /\ OnlyToggles /\ TogglePlay)
    \/ \E i \in 1..Len(pending) : PlaySongDone(i, TRUE)
    \/ \E i \in 1..Len(pending) : PlayVolumeDone(i, TRUE)
    \/ \E i \in 1..Len(pending) : TogglePlayDone(i, TRUE)
    \/ EngineAdvance

SpecToggles == InitToggles /\ [][NextToggles]_vars

TypeOK ==
    /\ currentSong \in Paths \cup {NoSong}
    /\ isPlaying \in BOOLEAN
    /\ playbackMode \in Range(Modes)
    /\ engine.song \in Paths \cup {NoSong}

(***************************************************************************)
(* The claims                                                              *)
(***************************************************************************)
NoDuplicates(s) == \A i, j \in 1..Len(s) : i # j => s[i] # s[j]
IsPlayTask(t) == t.k \in PlayKinds
\* The step just taken was the handler or continuation op.
Did(op) == lastOp' = op

\* Labels of the steps that record a play in the history: the end of
\* playSong, and the poll's inline update (directly after play_song, or after
\* the artwork call, delivered or failed, for a track with artwork).
RecordOps == {"playRecorded", "autoRecorded", "autoArtRecorded", "autoArtFailed"}
AutoRecordOps == RecordOps \ {"playRecorded"}
\* Labels of the steps in which the engine starts a track for the poll.
AutoStartOps == {"autoRecorded", "autoStarted"}

\* C1 (SpecPoll): auto-advance fires at most once per track-end event: the
\* poller never has issued two play commands since a play command last
\* completed and reset the position to 0.
C1_AutoAdvanceOnce == autoFired <= 1

\* C2 (SpecShuffle): in Shuffle mode with N >= 2 tracks and an empty shuffle
\* history, the first N tracks played by consecutive next()/auto-advance
\* steps, the track playing at the start included, are N distinct indices
\* and so cover the playlist.
C2_FirstNDistinct ==
    Len(playlist) >= 2 =>
        /\ NoDuplicates(SubSeq(run, 1, Min2(Len(run), Len(playlist))))
        /\ Len(run) >= Len(playlist) =>
              {run[i] : i \in 1..Len(playlist)} = 0..(Len(playlist) - 1)

C2_Witness ==
    /\ Len(playlist) = NumPaths
    /\ Len(run) = Len(playlist)
    /\ lastOp = "autoRecorded"
    /\ playHistory[1].path = At(playlist, run[Len(run)])

\* C3 (SpecShuffle): in every shuffle cycle, the ones after the first reset
\* of the bag included, no index is played a second time: the indices played
\* since the last reset (with the track current at the reset) are distinct.
C3_NoRepeatInCycle ==
    Len(playlist) >= 2 => NoDuplicates(cycle) /\ Len(cycle) <= Len(playlist)

\* A full cycle that began with a reset after the first cycle.
C3_Witness ==
    /\ Len(playlist) = NumPaths
    /\ Len(run) = Len(playlist)
    /\ Len(cycle) = Len(playlist)
    /\ cycle[1] = run[Len(run)]
    /\ lastOp \in {"nextSong", "autoAdvance"}

\* C4 (SpecShuffle): previous() in Shuffle undoes next(): it plays the track
\* left by the latest next() not yet undone (so k previous() after k next()
\* restore the earlier tracks in reverse order); only with an empty history
\* stack it picks at random, and then another track than the current one.
C4_PreviousUndoesNext ==
    [][(Did("previousSong") /\ playbackMode = Shuffle /\ Len(playlist) >= 2
            /\ currentSong # NoSong /\ Idle)
        => /\ IF undo # <<>>
                THEN currentSong' = At(playlist, undo[Len(undo)])
                ELSE shuffleHistory = <<>> /\ currentSong' # currentSong
           /\ pending' = <<Task("play_song", currentSong', volume)>>]_vars

\* The second of two previous() after two next(): the stack is empty again.
C4_Witness ==
    /\ lastOp = "previousSong"
    /\ playbackMode = Shuffle
    /\ Len(playlist) = NumPaths
    /\ shuffleHistory = <<>>
    /\ Len(pending) = 1 /\ pending[1].song = currentSong
    /\ Len(playHistory) = NumPaths
    /\ playHistory[Len(playHistory)].path = currentSong

\* C5 (Spec): in RepeatOne next(), previous() and the auto-advance send the
\* play command for the current track and leave the current track
\* unchanged; no play command for another track is pending afterwards.
C5_RepeatOneReplays ==
    [][((Did("nextSong") \/ Did("previousSong") \/ Did("autoAdvance"))
            /\ playbackMode = RepeatOne /\ currentSong # NoSong)
        => /\ currentSong' = currentSong
           /\ Len(pending') = 1
           /\ IsPlayTask(pending'[1])
           /\ pending'[1].song = currentSong]_vars

C5_Witness ==
    /\ lastOp = "repeatStarted"
    /\ playbackMode = RepeatOne
    /\ Len(playlist) >= 2
    /\ engine.song = currentSong /\ engine.pos = 0 /\ currentTime = 0

\* C6 as stated (Spec): in Linear mode, after next() with the current track
\* at the last index, isPlaying is false and the current track is unchanged.
C6_NextAtLastStops ==
    [][(Did("nextSong") /\ playbackMode = Linear /\ currentSong # NoSong
            /\ FindIndex(playlist, currentSong) = Len(playlist) - 1)
        => isPlaying' = FALSE /\ currentSong' = currentSong]_vars

\* C7 (SpecSeek): seek(t) clamps t to [0, duration]: the value stored as the
\* position and the value sent to the engine are within [0, duration].
C7_SeekClamps ==
    (lastOp = "seek" /\ duration > 0) =>
        /\ 0 <= currentTime /\ currentTime <= duration
        /\ 0 <= pending[Len(pending)].arg /\ pending[Len(pending)].arg <= duration

\* C8 (SpecSeek): in every reachable state 0 <= position <= duration.
C8_PositionInRange == 0 <= currentTime /\ currentTime <= duration

\* C9 (Spec): the history holds at most one entry per path, every playCount
\* is >= 1, and a recorded play of a path already present raises that
\* entry's playCount by one and adds no entry, while a new path adds one
\* entry with playCount 1.
PathsOf(h) == {h[i].path : i \in 1..Len(h)}
CountOf(h, path) == IF path \in PathsOf(h)
                      THEN (CHOOSE e \in Range(h) : e.path = path).playCount
                      ELSE 0
C10_RecordedAtFront ==
    lastOp \in RecordOps =>
        playHistory # <<>> /\ playHistory[1].path = currentSong

\* C11 (SpecHistory): starting from a log of at most 100 entries the log
\* never grows beyond 100 entries, and recording a new path into a log of
\* 100 entries drops the entry at the tail and puts the new entry in front.
C11_HistoryCapped ==
    [][/\ Len(playHistory') <= HistoryCap
       /\ (lastOp' \in RecordOps
             /\ pending[1].song \notin PathsOf(playHistory)
             /\ Len(playHistory) = HistoryCap)
           => playHistory' = <<Entry(pending[1].song, 1)>>
                               \o SubSeq(playHistory, 1, HistoryCap - 1)]_vars

\* Two new paths recorded into a stored log of 100 entries: the two oldest
\* stored entries are gone.
C11_Witness ==
    /\ budget - MaxPlays = HistoryCap
    /\ Len(playHistory) = HistoryCap
    /\ lastOp \in RecordOps
    /\ playHistory[1].path = currentSong
    /\ playHistory[2].path \in Paths
    /\ playHistory[HistoryCap].path = NumPaths + HistoryCap - 2

\* C12 (Spec): in Linear mode with the current track at index i < N-1, the
\* poll that sees the end of the track makes playlist[i+1] current and sends
\* the play command for it; when the engine accepts it, the current track is
\* playlist[i+1], duration is that track's (declared or reported) duration,
\* the position is 0, isPlaying is true, and the new track's entry is at the
\* front of the history with the previous track's entry right behind it.
C12_LinearAutoAdvance ==
    [][/\ (Did("autoAdvance") /\ playbackMode = Linear)
           => /\ currentSong' = At(playlist, FindIndex(playlist, currentSong) + 1)
              /\ pending' = <<Task("poll_play", currentSong', 0)>>
       /\ (lastOp' \in AutoStartOps /\ playbackMode = Linear)
           => /\ currentSong' = pending[1].song
              /\ duration' \in {EngDur(currentSong'), MetaDur(currentSong')} \ {0}
              /\ currentTime' = 0
              /\ isPlaying'
       /\ (lastOp' \in AutoRecordOps /\ playbackMode = Linear)
           => /\ currentSong' = pending[1].song
              /\ Len(playHistory') >= 2
              /\ playHistory'[1].path = currentSong'
              /\ playHistory'[2].path =
                     At(playlist, FindIndex(playlist, currentSong') - 1)]_vars

\* The poll callback at the head of the queue gets the engine's position.
PollAnswered ==
    /\ pending # <<>> /\ pending[1].k = "poll"
    /\ (Did("pollUpdate") \/ Did("autoAdvance") \/ Did("autoStop"))

\* C13 (Spec): in Linear mode, when the poll reads a position >= duration -
\* 0.1 while the current track is the last of the playlist, no play command
\* is sent, isPlaying becomes false, the current track stays the last track
\* and the position keeps the end value the poll read (it is not set to 0).
C13_LinearEndStops ==
    [][(PollAnswered /\ playbackMode = Linear /\ currentSong # NoSong
            /\ FindIndex(playlist, currentSong) = Len(playlist) - 1
            /\ duration > 0 /\ engine.pos >= duration - Eps)
        => /\ pending' = <<>>
           /\ engine' = engine
           /\ isPlaying' = FALSE
           /\ currentSong' = currentSong
           /\ currentTime' = engine.pos
           /\ currentTime' > 0]_vars

C13_Witness ==
    /\ lastOp = "autoStop"
    /\ playbackMode = Linear
    /\ Len(playlist) >= 2
    /\ FindIndex(playlist, currentSong) = Len(playlist) - 1
    /\ ~isPlaying
    /\ currentTime >= duration - Eps /\ currentTime > 0
    /\ pending = <<>>

\* C14 (Spec): a play command the engine rejects leaves isPlaying false, and
\* the current track, duration, position and history are set only when the
\* command succeeds: play(track) does not change them while the command is
\* awaiting its answer and the failure does not change them either, so after
\* a failed play they have the values they had before the call.
C14_FailedPlayRestores ==
    [][/\ Did("playSong")
           => UNCHANGED <<currentSong, duration, currentTime, playHistory>>
       /\ Did("playFailed")
           => /\ isPlaying' = FALSE
              /\ UNCHANGED <<currentSong, duration, currentTime, playHistory>>]_vars

\* C15 (Spec): after a play command succeeded (play(track), or the poll's
\* auto-advance), duration is the duration the engine returned when it
\* reports one (non-zero), and the track's declared metadata duration only
\* when the engine reports none.
C15_EngineDurationFirst ==
    lastOp \in {"playStarted", "repeatStarted"} \cup AutoStartOps =>
        duration = IF EngDur(currentSong) # 0
                     THEN EngDur(currentSong)
                     ELSE MetaDur(currentSong)

\* C16 (SpecToggle): togglePlay() with no current track sends no command and
\* changes no state; with a current track it sends pause when isPlaying is
\* true and resume otherwise and changes no state yet; isPlaying is inverted
\* when that command succeeded and unchanged when it failed.
C16_ToggleAfterSuccess ==
    [][/\ (Did("togglePlay") /\ currentSong = NoSong)
           => UNCHANGED <<hookVars, engine, pending>>
       /\ (Did("togglePlay") /\ currentSong # NoSong)
           => /\ Len(pending') = 1
              /\ pending'[1].k = (IF isPlaying THEN "pause" ELSE "resume")
              /\ UNCHANGED <<hookVars, engine>>
       /\ Did("toggleDone")
           => /\ isPlaying' = ~isPlaying
              /\ pending' = <<>>
              /\ UNCHANGED <<currentSong, currentTime, duration, playHistory>>
       /\ Did("toggleFailed")
           => /\ pending' = <<>>
              /\ UNCHANGED <<hookVars, engine>>]_vars

\* A paused track was resumed.
C16_Witness ==
    /\ lastOp = "toggleDone"
    /\ isPlaying
    /\ engine.playing /\ engine.song = currentSong
    /\ playHistory # <<>>

\* The calls of kind k awaiting their answer.
Awaiting(q, k) == Cardinality({i \in 1..Len(q) : q[i].k = k})

\* C17 (SpecSeeks): seek(t) with a current track stores the target as the
\* position before the engine answers; when the seek command has answered,
\* with success or with an error, the engine's position is read again, and
\* the value read is written to the position; so at the moment the last
\* pending call completes the position is the position the engine just
\* reported, also when seeks overlap and are confirmed out of order.
C17_SeekResync ==
    [][/\ Did("seek")
           => /\ pending' = Append(pending, pending'[Len(pending')])
              /\ pending'[Len(pending')].k = "seek"
              /\ currentTime' = pending'[Len(pending')].arg
              /\ engine' = engine
       /\ (Did("seekSent") \/ Did("seekFailed"))
           => /\ Awaiting(pending', "seek") = Awaiting(pending, "seek") - 1
              /\ Awaiting(pending', "seek_sync") = Awaiting(pending, "seek_sync") + 1
              /\ currentTime' = currentTime
       /\ Did("seekSynced")
           => /\ Awaiting(pending', "seek_sync") = Awaiting(pending, "seek_sync") - 1
              /\ currentTime' = engine.pos
       /\ (pending # <<>> /\ pending' = <<>> /\ currentSong # NoSong
             /\ lastOp' # "playRecorded")
           => currentTime' = engine.pos]_vars

\* Two overlapping seeks: the later one is confirmed, and its re-read is
\* awaited, while the earlier one still awaits its confirmation.
C17_Witness ==
    /\ Len(pending) = 2
    /\ pending[1].k = "seek" /\ pending[2].k = "seek_sync"
    /\ lastOp = "seekSent"
    /\ currentTime # pending[1].arg
    /\ engine.pos # pending[1].arg

\* C18 (SpecVolume): setVolume(v) clamps v to [0, 100]: the stored volume
\* is within 0..100 in every reachable state, and so is the percentage
\* behind every fraction sent to the engine.
C18_VolumeClamped ==
    /\ 0 <= volume /\ volume <= 100
    /\ \A i \in 1..Len(pending) :
          pending[i].k \in {"set_volume", "play_volume", "play_song"}
              => 0 <= pending[i].arg /\ pending[i].arg <= 100
    /\ 0 <= engine.volume /\ engine.volume <= 100

\* The engine rejected the play command (of playSong or of the auto-advance),
\* or the set_volume inside playSong.
PlayFailure == Did("playFailed") \/ Did("playVolumeFailed") \/ Did("autoFailed")
\* The engine rejected pause, resume, seek, or handleVolumeChange's set_volume.
OtherFailure == Did("toggleFailed") \/ Did("seekFailed") \/ Did("volumeFailed")

\* C19 as stated (SpecFailures): a failure of any engine command (play,
\* pause, resume, seek, set-volume) leaves isPlaying false.
C19_AnyFailureStops ==
    [][(PlayFailure \/ OtherFailure) => isPlaying' = FALSE]_vars

\* C19 amended (SpecFailures): every failure is handled inside the session;
\* a failed play command, and a failed set-volume inside play, leave
\* isPlaying false, while a failed pause, resume, seek or setVolume leaves
\* isPlaying, and the rest of the session state, as it was.
C19_FailureHandled ==
    [][/\ PlayFailure => isPlaying' = FALSE
       /\ OtherFailure => UNCHANGED hookVars]_vars

\* A pause the engine rejected: the session is still playing.
C19_Witness ==
    /\ lastOp = "toggleFailed"
    /\ isPlaying /\ engine.playing
    /\ pending = <<>>

\* C20 (SpecAuto): when the engine rejects the track an auto-advance
\* resolved, isPlaying becomes false, and while the session is stopped the
\* poller issues no play command (the user, who alone could start playback
\* again, does nothing after starting the first track): a rejected
\* auto-advance is not retried and does not cascade through the playlist.
C20_NoRetryAfterReject ==
    [][/\ Did("autoFailed") => isPlaying' = FALSE
       /\ ~isPlaying => ~Did("autoAdvance")]_vars

\* C21 (SpecEdit): after clearPlaylist() the playlist is empty, there is no
\* current track, isPlaying is false, and position and duration are 0.
C21_ClearResetsTransport ==
    lastOp = "clearPlaylist" =>
        /\ playlist = <<>>
        /\ currentSong = NoSong
        /\ ~isPlaying
        /\ currentTime = 0
        /\ duration = 0

\* C22 (SpecEdit): clearPlaylist() stops playback in the engine too: once
\* it has completed the engine is not playing, in agreement with isPlaying.
C22_ClearStopsEngine ==
    (lastOp = "clearPlaylist" /\ pending = <<>>) =>
        /\ ~engine.playing
        /\ engine.playing = isPlaying

\* C23 (SpecReorder): reorder(from, to) with valid indices yields the playlist
\* with the track formerly at index from at index to and the other tracks
\* in their former relative order; it leaves the current track (and the rest
\* of the transport) alone, the current track is still in the playlist, and
\* a following Linear next() plays the track that follows the current one
\* in the new order.
C23_ReorderMoves ==
    [][/\ \A f, t \in 0..(Len(playlist) - 1) :
             LET r == Reorder(playlist, f, t) IN
             /\ Len(r) = Len(playlist)
             /\ r[t + 1] = playlist[f + 1]
             /\ RemoveAt(r, t + 1) = RemoveAt(playlist, f + 1)
       /\ Did("reorderPlaylist")
           => /\ \E f, t \in 0..(Len(playlist) - 1) : playlist' = Reorder(playlist, f, t)
              /\ UNCHANGED <<currentSong, isPlaying, currentTime, duration, engine, pending>>
              /\ currentSong # NoSong => currentSong \in Range(playlist')
       /\ (Did("nextSong") /\ playbackMode = Linear /\ currentSong # NoSong)
           => /\ NoDuplicates(playlist)
              /\ LET i == CHOOSE j \in 1..Len(playlist) : playlist[j] = currentSong IN
                 i < Len(playlist)
                     => /\ currentSong' = playlist[i + 1]
                        /\ pending' = <<Task("play_song", playlist[i + 1], volume)>>]_vars

\* next() after a reorder: the track now playing next comes before the
\* former one in the order the session started with.
C23_Witness ==
    /\ lastOp = "nextSong"
    /\ Len(playlist) = NumPaths
    /\ Len(pending) = 1
    /\ isPlaying /\ engine.playing
    /\ engine.song > currentSong
    /\ FindIndex(playlist, currentSong) = FindIndex(playlist, engine.song) + 1

\* C24 (SpecDup): occurrences of a path are distinct by position, so next()
\* in Linear or RepeatAll mode steps from a later occurrence to the position
\* after it and every position is reached by repeated next(): when the
\* track at position 0 and then N - 1 next() have been played, the tracks
\* played are all the tracks of the playlist.
C24_EveryPositionReached ==
    (pending = <<>> /\ TotalPlays(playHistory) = Len(playlist))
        => PathsOf(playHistory) = Range(playlist)

\* C25 (SpecModes): cyclePlaybackMode() maps Linear to RepeatAll, RepeatAll
\* to RepeatOne, RepeatOne to Shuffle and Shuffle to Linear; the mode is one
\* of the four in every state, and four cycles in a row lead back to the
\* mode they started from.
C25_ModeCycle ==
    [][/\ playbackMode \in {Linear, RepeatAll, RepeatOne, Shuffle}
       /\ playbackMode' \in {Linear, RepeatAll, RepeatOne, Shuffle}
       /\ NextMode(NextMode(NextMode(NextMode(playbackMode)))) = playbackMode
       /\ \A m \in {NextMode(playbackMode), NextMode(NextMode(playbackMode)),
                     NextMode(NextMode(NextMode(playbackMode)))} : m # playbackMode
       /\ Did("togglePlaybackMode")
           => playbackMode' = CASE playbackMode = Linear -> RepeatAll
                                [] playbackMode = RepeatAll -> RepeatOne
                                [] playbackMode = RepeatOne -> Shuffle
                                [] playbackMode = Shuffle -> Linear]_vars

\* The cycle was closed, from Shuffle back to Linear, while a track played.
C25_Witness ==
    /\ lastOp = "togglePlaybackMode"
    /\ playbackMode = Linear
    /\ isPlaying
    /\ playHistory # <<>>

\* C26 (Spec): in RepeatAll mode with the current track at index i of N >= 1
\* tracks, next() and the auto-advance play index (i + 1) mod N and
\* previous() plays index (i - 1) mod N, which are valid playlist indices.
C26_RepeatAllWraps ==
    [][(playbackMode = RepeatAll /\ currentSong # NoSong
            /\ currentSong \in Range(playlist))
        => LET N == Len(playlist)
               i == (CHOOSE j \in 1..N : playlist[j] = currentSong) - 1
           IN
           /\ (Did("nextSong") \/ Did("autoAdvance"))
                 => /\ currentSong' = playlist[((i + 1) % N) + 1]
                    /\ Len(pending') = 1 /\ IsPlayTask(pending'[1])
                    /\ pending'[1].song = currentSong'
           /\ Did("previousSong")
                 => /\ currentSong' = playlist[((i + N - 1) % N) + 1]
                    /\ Len(pending') = 1 /\ IsPlayTask(pending'[1])
                    /\ pending'[1].song = currentSong']_vars

\* previous() at index 0 wrapped to the last index.
C26_Witness ==
    /\ lastOp = "previousSong"
    /\ playbackMode = RepeatAll
    /\ Len(playlist) = NumPaths
    /\ currentSong = At(playlist, Len(playlist) - 1)
    /\ engine.song = At(playlist, 0) /\ engine.playing
    /\ Len(pending) = 1

\* C27 (Spec): in Linear mode with the current track at index i, next()
\* plays index i + 1 when i < N - 1 and previous() plays index i - 1 when
\* i > 0; previous() at index 0 sends no play command and changes neither
\* the current track nor the position.
C27_LinearSteps ==
    [][(playbackMode = Linear /\ currentSong # NoSong
            /\ currentSong \in Range(playlist))
        => LET N == Len(playlist)
               i == (CHOOSE j \in 1..N : playlist[j] = currentSong) - 1
           IN
           /\ (Did("nextSong") /\ i < N - 1)
                 => /\ currentSong' = playlist[i + 2]
                    /\ pending' = <<Task("play_song", playlist[i + 2], volume)>>
           /\ (Did("previousSong") /\ i > 0)
                 => /\ currentSong' = playlist[i]
                    /\ pending' = <<Task("play_song", playlist[i], volume)>>
           /\ (Did("previousSong") /\ i = 0)
                 => UNCHANGED <<hookVars, engine, pending>>]_vars

\* previous() at index 0 of a playing session: nothing happened.
C27_Witness ==
    /\ lastOp = "previousSong"
    /\ playbackMode = Linear
    /\ Len(playlist) >= 2
    /\ FindIndex(playlist, currentSong) = 0
    /\ isPlaying /\ engine.song = currentSong
    /\ pending = <<>>

\* C28 (SpecShuffle): in Shuffle mode with N >= 2 tracks and the current
\* track in the playlist, the index next() or the auto-advance chooses is not
\* the index of the track that was playing and is not held in the shuffle
\* bag the choice is made from (the bag after a due reset); with N = 1 it
\* is the single index again.
C28_ShuffleChoice ==
    [][(playbackMode = Shuffle /\ currentSong \in Range(playlist)
            /\ (Did("nextSong") \/ Did("autoAdvance")))
        => LET N == Len(playlist)
               c == FindIndex(playlist, currentSong)
               n == FindIndex(playlist, currentSong')
           IN
           /\ currentSong' \in Range(playlist)
           /\ Len(pending') = 1 /\ IsPlayTask(pending'[1])
           /\ pending'[1].song = currentSong'
           /\ IF N = 1
                THEN n = c
                ELSE /\ n # c
                     /\ n \notin Range(shuffleHistory')
                     /\ ~BagUsedUp(shuffleHistory, N) => n \notin Range(shuffleHistory)]_vars

\* The auto-advance chose the last index left outside the bag.
C28_Witness ==
    /\ lastOp = "autoAdvance"
    /\ playbackMode = Shuffle
    /\ Len(playlist) = NumPaths
    /\ Len(shuffleHistory) = NumPaths - 1
    /\ FindIndex(playlist, currentSong) \notin Range(shuffleHistory)
    /\ Len(pending) = 1 /\ pending[1].k = "poll_play"

\* x clamped to [0, duration].
Clamped(x) == Max2(0, Min2(duration, x))

\* C29 (SpecSeek): skipForward(s) and skipBackward(s) take the current
\* position plus or minus s, clamp it to [0, duration] and seek to it: the
\* target is stored as the position at once and sent to the engine with a
\* seek command (whose continuation re-reads the position); it is never
\* below 0 and never above duration.
C29_SkipClamped ==
    [][(Did("skipBackward") \/ Did("skipForward"))
        => LET target == pending'[Len(pending')].arg IN
           /\ pending' = Append(pending, Task("seek", currentSong, target))
           /\ currentTime' = target
           /\ 0 <= target /\ target <= duration
           /\ Did("skipBackward")
                 => \E sec \in SkipSeconds : target = Clamped(currentTime - sec)
           /\ Did("skipForward")
                 => \E sec \in SkipSeconds : target = Clamped(currentTime + sec)]_vars


\* The end of the current track is due: the poll callback that captured the
\* present state awaits get_current_time, and the engine is at the end.
AutoAdvanceDue ==
    /\ Len(pending) = 1
    /\ pending[1] = PollTask
    /\ isPlaying
    /\ currentSong # NoSong
    /\ Len(playlist) # 0
    /\ SongEnded(duration, engine.pos)
    /\ CanPlay

\* The shuffle bags a next step can leave.
BagsAfter ==
    {shuffleHistory}
      \cup {Append(shuffleHistory, i) : i \in 0..(NumPaths - 1)}
      \cup {<<i>> : i \in 0..(NumPaths - 1)}

\* C30: from the same state, the end-of-track auto-advance and a manual next()
\* resolve to the same next track and the same shuffle-bag update and leave
\* the same isPlaying: every outcome (current track, isPlaying, shuffle bag)
\* of the one is an outcome of the other.
C30_SameLogic ==
    AutoAdvanceDue
      => \A s \in Paths \cup {NoSong}, b \in BOOLEAN, sh \in BagsAfter :
           (ENABLED (/\ NextSong
                     /\ currentSong' = s /\ isPlaying' = b /\ shuffleHistory' = sh))
             <=> (ENABLED (/\ PollTimeDone(1, TRUE)
                           /\ currentSong' = s /\ isPlaying' = b /\ shuffleHistory' = sh))


\* C31 (SpecPoll): every track start caused by the auto-advance, the RepeatOne
\* replay as well as the transition to the resolved next track, records the
\* started track in the history as play() does (a new entry at the front, or
\* playCount + 1 for an existing entry), at once or, for a track with
\* artwork, when the artwork call has answered.
C31_AutoStartRecorded ==
    [][/\ (Did("repeatStarted") \/ Did("autoRecorded"))
           => playHistory' = AddToHistory(playHistory, engine'.song)
       /\ Did("autoStarted")
           => \E i \in 1..Len(pending') :
                 pending'[i] = Task("poll_artwork", engine'.song, 0)
       /\ lastOp' \in {"autoArtRecorded", "autoArtFailed"}
           => \E i \in 1..Len(pending) :
                 /\ pending[i].k = "poll_artwork"
                 /\ pending' = RemoveAt(pending, i)
                 /\ playHistory' = AddToHistory(playHistory, pending[i].song)]_vars


\* The step just taken was the continuation of a poll callback after
\* get_current_time answered.
DidPoll == lastOp' \in {"pollUpdate", "autoAdvance", "autoStop"}

\* C32 (SpecStop): the position poller has effect only while isPlaying is
\* true: a poll callback whose answer arrives while isPlaying is false, one
\* that was already awaiting the engine included, writes nothing to the
\* hook's state and starts no track.
C32_PollOnlyWhilePlaying ==
    [][(~isPlaying /\ DidPoll)
        => /\ UNCHANGED hookVars
           /\ PendingPlays' = PendingPlays]_vars


\* C33 (SpecOverlap): a stale engine response never overwrites newer state:
\* once every response of the play() calls has arrived, the duration and the
\* front history entry belong to the current track, the track of the latest
\* call.
C33_LatestCallWins ==
    (Idle /\ currentSong # NoSong)
      => /\ duration = DurationOf(currentSong, EngDur(currentSong))
         /\ playHistory # <<>>
         /\ playHistory[1].path = currentSong


\* C34 (SpecModeRace): the shuffle bag is reset on entering and on leaving
\* Shuffle: after every step the shuffle history is empty when the mode is
\* not Shuffle, and it is empty right after togglePlaybackMode entered
\* Shuffle.
C34_BagResetWithMode ==
    [][/\ playbackMode' # Shuffle => shuffleHistory' = <<>>
       /\ (Did("togglePlaybackMode") /\ playbackMode' = Shuffle)
             => shuffleHistory' = <<>>]_vars


\* Playback has stopped at the end of the playlist.
StoppedAtEnd ==
    /\ ~isPlaying
    /\ currentSong = At(playlist, Len(playlist) - 1)
    /\ PendingPlays = 0

\* C35 (SpecLinear): in Linear mode, the engine accepting every command and
\* every track reaching its end, the auto-advance alone plays the indices
\* i, i+1, ..., N-1 in order, each exactly once (every track the auto-advance
\* starts is the successor of the track that was playing), and then stops:
\* a state with isPlaying false and the last track current is reached and
\* kept, with no further play command.
C35_LinearRunsToEnd ==
    /\ [][lastOp' \in AutoStartOps
           => FindIndex(playlist, engine'.song) = FindIndex(playlist, engine.song) + 1]_vars
    /\ [](currentSong # NoSong => <>[]StoppedAtEnd)


\* The engine has just started track k.
Started(k) == engine.song = k /\ engine.pos = 0 /\ engine.playing

\* C36 (SpecRepeatAll): in RepeatAll mode with N >= 1 tracks, the engine
\* accepting every command and every track reaching its end, the
\* auto-advance alone never stops playback (isPlaying, once true, stays
\* true), plays the indices in cyclic playlist order (every track it starts
\* is the cyclic successor of the track that was playing) and plays every
\* index again and again: as long as the followed part of the session has
\* room for one more round, every track of the playlist is started again.
C36_RepeatAllCycles ==
    /\ [][isPlaying => isPlaying']_vars
    /\ [][lastOp' \in AutoStartOps
           => FindIndex(playlist, engine'.song)
                = WrapNext(FindIndex(playlist, engine.song), Len(playlist))]_vars
    /\ \A k \in Paths :
         []((/\ isPlaying /\ k \in Range(playlist)
             /\ TotalPlays(playHistory) + PendingPlays + Len(playlist) < budget)
              => <>Started(k))


\* C37 (SpecStop): in every reachable state isPlaying = true implies that a
\* current track is set, also when clearPlaylist() ran while a play command
\* or an auto-advance was awaiting the engine's answer.
C37_PlayingHasTrack == isPlaying => currentSong # NoSong


\* C38 (SpecForeign): with a non-empty playlist and a current track, next()
\* and previous() in any mode leave the current track unchanged or set it to
\* an element of the playlist, also when the current track is not in the
\* playlist; the current track never becomes undefined and the call does not
\* stop playback.
C38_NavigationStaysInPlaylist ==
    [][(Did("nextSong") \/ Did("previousSong"))
        => /\ currentSong' = currentSong \/ currentSong' \in Range(playlist)
           /\ currentSong' # NoSong
           /\ isPlaying => isPlaying']_vars


\* C39 (SpecSync): when no engine command is in flight, isPlaying equals the
\* engine's actual playing state, after any interleaving of play() and
\* togglePlay() and whatever order the answers arrive in.
C39_PlayingMatchesEngine == Idle => isPlaying = engine.playing


\* C40 (SpecToggles): two togglePlay() calls whose commands both succeed
\* leave isPlaying at its original value and send one pause and one resume,
\* also when the second call is made before the first answer: a call made
\* while a toggle command awaits its answer sends the other command, and
\* every answered toggle command flips isPlaying.
C40_TwoTogglesCancel ==
    [][/\ (Did("togglePlay") /\ Len(pending) > 0 /\ Len(pending') = Len(pending) + 1)
             => pending'[Len(pending')].k # pending[Len(pending)].k
       /\ Did("toggleDone") => isPlaying' = ~isPlaying]_vars

====
